---- MODULE Spec2Model ----
(***************************************************************************)
(* Daniel's Exercise Calculator (src/Final.py and src/Main.py): the        *)
(* validated input readers, the three calorie calculators, the session     *)
(* loop and the summary, as a state machine over the lines the user types.  *)
(*                                                                         *)
(* Text is a sequence of one-character strings, so that strip(), lower(),   *)
(* list.index() and float() are computed, not assumed.                      *)
(*                                                                         *)
(* A Python float is modelled by its exact value s * (n / d) * 10^e (sign,  *)
(* arbitrary-precision naturals, decimal exponent) or by inf / nan, and     *)
(* every operation ends with the range effects of IEEE-754 binary64:        *)
(* a magnitude of at most 2^-1075 becomes 0.0, a magnitude of at least      *)
(* 2^1024 - 2^970 becomes inf, and a sum drops an addend more than 40       *)
(* decimal orders below the other.  The rounding of the 53-bit significand   *)
(* and the sign of zero are not modelled.                                   *)
(***************************************************************************)
EXTENDS Integers, Sequences, FiniteSets, TLC

(***************************************************************************)
(* Arbitrary-precision naturals: little-endian limbs below Base, no leading  *)
(* zero limb, << >> is 0.  The operations are written without deep recursion *)
(* (carries by look-ahead, sums by halving).                                 *)
(***************************************************************************)
Base == 10 * 100

MinOf(S) == CHOOSE m \in S : \A j \in S : m <= j

MaxOf(S) == CHOOSE m \in S : \A j \in S : j <= m

\* v without its leading zero limbs
BNorm(v) ==
  LET nz == {i \in 1..Len(v) : v[i] # 0}
  IN  IF nz = {} THEN <<>>
      ELSE SubSeq(v, 1, CHOOSE m \in nz : \A j \in nz : j <= m)

\* one carry pass over columns that may exceed a limb: the same number
BPass(v) ==
  [i \in 1..(Len(v) + 1) |->
      (IF i <= Len(v) THEN v[i] % Base ELSE 0) + (IF i > 1 THEN v[i - 1] \div Base ELSE 0)]

\* the carry into column i, for columns below 2 * Base - 1
BCarryInto(v, i) ==
  \E j \in 1..(i - 1) : v[j] >= Base /\ \A k \in (j + 1)..(i - 1) : v[k] = Base - 1

BRipple(v) ==
  [i \in 1..(Len(v) + 1) |->
      ((IF i <= Len(v) THEN v[i] ELSE 0) + (IF BCarryInto(v, i) THEN 1 ELSE 0)) % Base]

\* the number whose columns are v (each column a natural below 2^31)
BCarry(v) == BNorm(BRipple(BPass(BPass(BPass(v)))))

BLimb(a, i) == IF i <= Len(a) THEN a[i] ELSE 0

BMaxLen(a, b) == IF Len(a) < Len(b) THEN Len(b) ELSE Len(a)

BAdd(a, b) == BCarry([i \in 1..BMaxLen(a, b) |-> BLimb(a, i) + BLimb(b, i)])

\* the borrow into column i of a - b
BBorrowInto(a, b, i) ==
  \E j \in 1..(i - 1) :
     /\ BLimb(a, j) < BLimb(b, j)
     /\ \A k \in (j + 1)..(i - 1) : BLimb(a, k) = BLimb(b, k)

\* a - b, for a >= b
BSub(a, b) ==
  BNorm([i \in 1..Len(a) |->
           (a[i] - BLimb(b, i) - (IF BBorrowInto(a, b, i) THEN 1 ELSE 0) + Base) % Base])

RECURSIVE BSum(_, _, _)
BSum(t, lo, hi) ==
  IF lo > hi THEN 0
  ELSE IF lo = hi THEN t[lo]
  ELSE LET m == (lo + hi) \div 2 IN BSum(t, lo, m) + BSum(t, m + 1, hi)

BColumn(a, b, i) ==
  LET lo == IF i + 1 - Len(b) > 1 THEN i + 1 - Len(b) ELSE 1
      hi == IF i < Len(a) THEN i ELSE Len(a)
      t  == [j \in lo..hi |-> a[j] * b[i + 1 - j]]
  IN  BSum(t, lo, hi)

BMul(a, b) ==
  IF a = <<>> \/ b = <<>> THEN <<>>
  ELSE IF a = <<1>> THEN b
  ELSE IF b = <<1>> THEN a
  ELSE BCarry([i \in 1..(Len(a) + Len(b) - 1) |-> BColumn(a, b, i)])

BLess(a, b) ==
  \/ Len(a) < Len(b)
  \/ /\ Len(a) = Len(b)
     /\ \E i \in 1..Len(a) :
          /\ a[i] < b[i]
          /\ \A j \in (i + 1)..Len(a) : a[j] = b[j]

BLeq(a, b) == ~BLess(b, a)

\* the natural i (below 2^31) as limbs
BFromInt(i) == BNorm([j \in 1..4 |-> (i \div (Base ^ (j - 1))) % Base])

\* the int of a natural below 2^31
BToInt(a) == BSum([j \in 1..Len(a) |-> a[j] * (Base ^ (j - 1))], 1, Len(a))

\* 10^e (Base is 10^3)
BPow10(e) ==
  [i \in 1..((e \div 3) + 1) |-> IF i = (e \div 3) + 1 THEN 10 ^ (e % 3) ELSE 0]

RECURSIVE BPow2(_)
BPow2(e) ==
  IF e < 9 THEN <<2 ^ e>>
  ELSE IF e % 2 = 0 THEN LET h == BPow2(e \div 2) IN BMul(h, h)
  ELSE BAdd(BPow2(e - 1), BPow2(e - 1))

(***************************************************************************)
(* Python floats.  A finite float is s * (n / d) * 10^e with s the sign, n   *)
(* and d naturals and e an int: exact, so that 0.45359237 and 1e-323 are     *)
(* what the program text says, and small, so that 1e-323 is not a 324-digit  *)
(* fraction.  Equal floats may differ as records: FEq compares them.         *)
(***************************************************************************)
Zero == [k |-> "fin", s |-> 0, n |-> <<>>, d |-> <<1>>, e |-> 0]

Inf(sg) == [k |-> "inf", s |-> sg, n |-> <<>>, d |-> <<1>>, e |-> 0]

NaN == [k |-> "nan", s |-> 0, n |-> <<>>, d |-> <<1>>, e |-> 0]

\* Python's None, for a variable that holds no float
None == [k |-> "none", s |-> 0, n |-> <<>>, d |-> <<1>>, e |-> 0]

\* half the smallest subnormal is 2^-1075: anything up to it rounds to 0.0
TinyDen == BPow2(1075)

\* 2^1024 - 2^970: anything from it on rounds to inf
HugeNum == BSub(BPow2(1024), BPow2(970))

\* an addend this many decimal orders below the other is below half an ulp
\* (2^-54 is about 10^-16.3) and is rounded away by the addition
AbsorbDigits == 2 * 20

\* the number of zero limbs at the low end of a > 0
BTrail(a) == MinOf({i \in 1..Len(a) : a[i] # 0}) - 1

\* the number of decimal digits of a > 0
BDigits(a) ==
  3 * (Len(a) - 1) + (IF a[Len(a)] < 10 THEN 1 ELSE IF a[Len(a)] < 100 THEN 2 ELSE 3)

\* a * 10^e for e > 0, a otherwise
Scale10(a, e) == IF e > 0 THEN BMul(a, BPow10(e)) ELSE a

\* floor(log10(n / d)), known to be k0 or k0 - 1
Log10At(n, d, k0) == IF BLeq(Scale10(d, k0), Scale10(n, 0 - k0)) THEN k0 ELSE k0 - 1

\* floor(log10(n / d)) for n, d > 0
Log10Floor(n, d) == Log10At(n, d, BDigits(n) - BDigits(d))

\* n, d and e without the zero limbs at the low ends of n (tn) and d (td)
Canon(sg, n, d, e, tn, td) ==
  [k |-> "fin", s |-> sg, n |-> SubSeq(n, tn + 1, Len(n)), d |-> SubSeq(d, td + 1, Len(d)),
   e |-> e + 3 * tn - 3 * td]

\* the float of sg * n / d * 10^e = sg * num / den, whose decimal order is m:
\* 2^-1075 is 2.47e-324 and 2^1024 - 2^970 is 1.797e308
Ranged(sg, n, d, e, m, num, den) ==
  IF m < -324 \/ (m = -324 /\ BLeq(BMul(num, TinyDen), den)) THEN Zero
  ELSE IF m > 308 \/ (m = 308 /\ BLeq(BMul(den, HugeNum), num)) THEN Inf(sg)
  ELSE Canon(sg, n, d, e, BTrail(n), BTrail(d))

\* the float nearest to sg * n / d * 10^e, as far as its range goes
Fl(sg, n, d, e) ==
  IF sg = 0 \/ n = <<>> THEN Zero
  ELSE Ranged(sg, n, d, e, e + Log10Floor(n, d), Scale10(n, e), Scale10(d, 0 - e))

Sign(i) == IF i > 0 THEN 1 ELSE IF i < 0 THEN -1 ELSE 0

Abs(i) == IF i < 0 THEN -i ELSE i

\* the float literal m / 10^f, as 1.609344 is Dec(1609344, 6)
Dec(m, f) == [k |-> "fin", s |-> Sign(m), n |-> BFromInt(Abs(m)), d |-> <<1>>, e |-> 0 - f]

\* the float of an int
FInt(i) == Dec(i, 0)

IsZero(x) == x.k = "fin" /\ x.s = 0

IsFinite(x) == x.k = "fin"

\* floor(log10 |x|) of a finite x # 0
Mag(x) == x.e + Log10Floor(x.n, x.d)

FNeg(x) == [x EXCEPT !.s = 0 - x.s]

FAbs(x) == [x EXCEPT !.s = Abs(x.s)]

FMul(x, y) ==
  IF x.k = "nan" \/ y.k = "nan" THEN NaN
  ELSE IF x.k = "inf" \/ y.k = "inf"
       THEN (IF x.s * y.s = 0 THEN NaN ELSE Inf(x.s * y.s))
  ELSE Fl(x.s * y.s, BMul(x.n, y.n), BMul(x.d, y.d), x.e + y.e)

\* x / y for y # 0.0 (Python raises ZeroDivisionError for y = 0.0)
FDiv(x, y) ==
  IF x.k = "nan" \/ y.k = "nan" THEN NaN
  ELSE IF x.k = "inf" THEN (IF y.k = "inf" THEN NaN ELSE Inf(x.s * y.s))
  ELSE IF y.k = "inf" THEN Zero
  ELSE Fl(x.s * y.s, BMul(x.n, y.d), BMul(x.d, y.n), x.e - y.e)

MinExp(x, y) == IF x.e < y.e THEN x.e ELSE y.e

\* the numerator of |x| over the denominator x.d * y.d * 10^-e, for e <= x.e
Cross(x, y, e) == BMul(BMul(x.n, y.d), BPow10(x.e - e))

\* |x| < |y| for x and y of decimal orders mx and my
MagLessAt(x, y, mx, my) ==
  IF mx # my THEN mx < my ELSE BLess(Cross(x, y, MinExp(x, y)), Cross(y, x, MinExp(x, y)))

\* |x| < |y| for finite x, y # 0
MagLess(x, y) == MagLessAt(x, y, Mag(x), Mag(y))

\* sx * a / dd * 10^e + sy * b / dd * 10^e
FAddOver(sx, sy, a, b, dd, e) ==
  Fl(IF sx = sy \/ BLess(b, a) THEN sx ELSE sy,
     IF sx = sy THEN BAdd(a, b) ELSE IF BLess(b, a) THEN BSub(a, b) ELSE BSub(b, a),
     dd, e)

\* x + y for finite x, y # 0 whose decimal orders differ by gap
FAddAt(x, y, gap) ==
  IF gap > AbsorbDigits THEN x
  ELSE IF 0 - gap > AbsorbDigits THEN y
  ELSE FAddOver(x.s, y.s, Cross(x, y, MinExp(x, y)), Cross(y, x, MinExp(x, y)),
                BMul(x.d, y.d), MinExp(x, y))

FAdd(x, y) ==
  IF x.k = "nan" \/ y.k = "nan" THEN NaN
  ELSE IF x.k = "inf" THEN (IF y.k = "inf" /\ y.s # x.s THEN NaN ELSE x)
  ELSE IF y.k = "inf" THEN y
  ELSE IF x.s = 0 THEN y
  ELSE IF y.s = 0 THEN x
  ELSE FAddAt(x, y, Mag(x) - Mag(y))

FSub(x, y) == FAdd(x, FNeg(y))

\* x < y; every comparison with nan is false
FLt(x, y) ==
  IF x.k = "nan" \/ y.k = "nan" THEN FALSE
  ELSE IF x.k = "inf" THEN x.s = -1 /\ ~(y.k = "inf" /\ y.s = -1)
  ELSE IF y.k = "inf" THEN y.s = 1
  ELSE IF x.s # y.s THEN x.s < y.s
  ELSE IF x.s = 0 THEN FALSE
  ELSE MagLess(IF x.s = 1 THEN x ELSE y, IF x.s = 1 THEN y ELSE x)

FGt(x, y) == FLt(y, x)

FEq(x, y) == x.k # "nan" /\ y.k # "nan" /\ ~FLt(x, y) /\ ~FLt(y, x)

FLe(x, y) == FLt(x, y) \/ FEq(x, y)

\* largest q in lo..hi with q * d <= n, given lo * d <= n
RECURSIVE FloorSearch(_, _, _, _)
FloorSearch(n, d, lo, hi) ==
  IF lo = hi THEN lo
  ELSE IF BLeq(BMul(BFromInt((lo + hi + 1) \div 2), d), n)
       THEN FloorSearch(n, d, (lo + hi + 1) \div 2, hi)
  ELSE FloorSearch(n, d, lo, ((lo + hi + 1) \div 2) - 1)

\* ints stay below 2^20 in the model
FloorMax == 2 ^ 20 - 1

\* floor(|x|) for a finite x # 0 with |x| <= FloorMax
FloorAbs(x) ==
  IF Mag(x) < 0 THEN 0
  ELSE FloorSearch(Scale10(x.n, x.e), Scale10(x.d, 0 - x.e), 0, FloorMax)

\* floor(x) for x < 0 with floor(|x|) = f
FloorNeg(x, f) == IF FEq(FInt(f), FNeg(x)) THEN 0 - f ELSE 0 - f - 1

\* math.floor of a finite x with |x| <= FloorMax, as an int
IntFloor(x) ==
  IF x.s = 0 THEN 0
  ELSE IF x.s > 0 THEN FloorAbs(x)
  ELSE FloorNeg(x, FloorAbs(x))

Half == Dec(5, 1)

\* the int nearest to f + r for 0 <= r < 1, a tie to the even one
RoundTie(f, r) ==
  IF FLt(r, Half) THEN f
  ELSE IF FLt(Half, r) THEN f + 1
  ELSE IF f % 2 = 0 THEN f ELSE f + 1

\* round(x) for x >= 0 with floor(x) = f
RoundAt(x, f) == RoundTie(f, FSub(x, FInt(f)))

\* Python 3's round(x) of a finite x >= 0
RoundNonNeg(x) == RoundAt(x, IF x.s = 0 THEN 0 ELSE FloorAbs(x))

\* round(x) for a finite x
PyRound(x) == x.s * RoundNonNeg(FAbs(x))

(***************************************************************************)
(* Text: str.strip, str.lower, list.index, float(str).                       *)
(***************************************************************************)
UpperLetters == <<"A", "B", "C", "D", "E", "F", "G", "H", "I", "J", "K", "L", "M", "N", "O", "P", "Q", "R", "S", "T", "U", "V", "W", "X", "Y", "Z">>

LowerLetters == <<"a", "b", "c", "d", "e", "f", "g", "h", "i", "j", "k", "l", "m", "n", "o", "p", "q", "r", "s", "t", "u", "v", "w", "x", "y", "z">>

DigitChars == <<"0", "1", "2", "3", "4", "5", "6", "7", "8", "9">>

Whitespace == {" ", "\t"}

LowerChar(c) ==
  IF \E i \in 1..26 : UpperLetters[i] = c
  THEN LowerLetters[CHOOSE i \in 1..26 : UpperLetters[i] = c]
  ELSE c

\* str.lower()
lower(s) == [i \in 1..Len(s) |-> LowerChar(s[i])]

\* str.strip()
strip(s) ==
  LET keep == {i \in 1..Len(s) : s[i] \notin Whitespace}
  IN  IF keep = {} THEN <<>> ELSE SubSeq(s, MinOf(keep), MaxOf(keep))

\* an index() that takes the first option x is a prefix of
index_prefix(options, x) ==
  LET hits == {i \in 1..Len(options) :
                 Len(x) <= Len(options[i]) /\ SubSeq(options[i], 1, Len(x)) = x}
  IN  IF hits = {} THEN -1 ELSE MinOf(hits) - 1

\* list.index(x), 0-based; -1 stands for the ValueError of a missing x
index(options, x) ==
  LET hits == {i \in 1..Len(options) : options[i] = x}
  IN  IF hits = {} THEN -1 ELSE MinOf(hits) - 1

IsDigit(c) == \E i \in 1..10 : DigitChars[i] = c

DigitValue(c) == (CHOOSE i \in 1..10 : DigitChars[i] = c) - 1

AllDigits(s) == \A i \in 1..Len(s) : IsDigit(s[i])

\* the first position of s that holds a character of cs, Len(s) + 1 if none does
FirstOf(s, cs) == MinOf({i \in 1..Len(s) : s[i] \in cs} \cup {Len(s) + 1})

\* the k-th digit from the right of the digit characters ds, counted from 0
DigitAt(ds, k) == IF k < Len(ds) THEN DigitValue(ds[Len(ds) - k]) ELSE 0

\* the natural written by the digit characters ds
BFromDigits(ds) ==
  BNorm([j \in 1..((Len(ds) + 2) \div 3) |->
           DigitAt(ds, 3 * j - 3) + 10 * DigitAt(ds, 3 * j - 2) + 100 * DigitAt(ds, 3 * j - 1)])

\* the int written by a short run of digit characters
IntFromDigits(ds) == BToInt(BFromDigits(ds))

\* the float written by the digits ip . fp and the exponent digits xd
FloatDigits(sg, ip, fp, hasExp, xneg, xd) ==
  IF /\ AllDigits(ip) /\ AllDigits(fp) /\ Len(ip) + Len(fp) >= 1
     /\ AllDigits(xd) /\ (hasExp => Len(xd) >= 1)
    THEN [ok |-> TRUE,
          v |-> Fl(sg, BFromDigits(ip \o fp), <<1>>,
                   (IF xneg THEN 0 - IntFromDigits(xd) ELSE IntFromDigits(xd)) - Len(fp))]
  ELSE [ok |-> FALSE, v |-> None]

\* m is the text before the exponent mark, x the text after it
FloatParts(sg, m, x, hasExp) ==
  FloatDigits(sg,
              SubSeq(m, 1, FirstOf(m, {"."}) - 1),
              SubSeq(m, FirstOf(m, {"."}) + 1, Len(m)),
              hasExp,
              x # <<>> /\ x[1] = "-",
              SubSeq(x, (IF x # <<>> /\ x[1] \in {"+", "-"} THEN 2 ELSE 1), Len(x)))

\* body is the text after the sign, epos the place of its exponent mark
FloatBody(sg, body, epos) ==
  IF lower(body) \in {<<"i", "n", "f">>, <<"i", "n", "f", "i", "n", "i", "t", "y">>} THEN [ok |-> TRUE, v |-> Inf(sg)]
  ELSE IF lower(body) = <<"n", "a", "n">> THEN [ok |-> TRUE, v |-> NaN]
  ELSE FloatParts(sg, SubSeq(body, 1, epos - 1), SubSeq(body, epos + 1, Len(body)),
                  epos <= Len(body))

\* the text of s after its sign
Unsigned(s) == SubSeq(s, (IF s # <<>> /\ s[1] \in {"+", "-"} THEN 2 ELSE 1), Len(s))

\* float(s) for a stripped s: [ok |-> FALSE] is the ValueError.  The grammar is
\* [sign] (inf | infinity | nan | digits [. digits] [e [sign] digits]), case
\* insensitive; Python's digit-group underscores are left out.
float(s) ==
  FloatBody(IF s # <<>> /\ s[1] = "-" THEN -1 ELSE 1, Unsigned(s),
            FirstOf(Unsigned(s), {"e", "E"}))

(***************************************************************************)
(* The program's constants.                                                  *)
(***************************************************************************)
KILOMETERS_PER_MILE == Dec(1609344, 6)

KILOGRAMS_PER_POUND == Dec(45359237, 8)

ACRES_PER_SQUARE_MILE == 640

CALORIES_PER_SQUARE == 100

MINUTES_PER_HOUR == 60

SWIMMING_STYLES ==
  << <<"i", "n", "t", "e", "n", "s", "e", " ", "b", "a", "c", "k", "s", "t", "r", "o", "k", "e">>,
     <<"b", "a", "c", "k", "s", "t", "r", "o", "k", "e">>,
     <<"i", "n", "t", "e", "n", "s", "e", " ", "b", "r", "e", "a", "s", "t", "s", "t", "r", "o", "k", "e">>,
     <<"b", "r", "e", "a", "s", "t", "s", "t", "r", "o", "k", "e">>,
     <<"b", "u", "t", "t", "e", "r", "f", "l", "y">>,
     <<"i", "n", "t", "e", "n", "s", "e", " ", "c", "r", "a", "w", "l">>,
     <<"c", "r", "a", "w", "l">>,
     <<"s", "i", "d", "e", "s", "t", "r", "o", "k", "e">>,
     <<"h", "i", "g", "h", " ", "e", "f", "f", "o", "r", "t", " ", "t", "r", "e", "a", "d", "i", "n", "g", " ", "w", "a", "t", "e", "r">>,
     <<"t", "r", "e", "a", "d", "i", "n", "g", " ", "w", "a", "t", "e", "r">> >>

SWIMMING_STYLE_METS ==
  << Dec(95, 1), Dec(48, 1), Dec(103, 1), Dec(53, 1), Dec(138, 1),
     Dec(100, 1), Dec(83, 1), Dec(70, 1), Dec(98, 1), Dec(35, 1) >>

TextBiking == <<"b", "i", "k", "i", "n", "g">>

TextRunning == <<"r", "u", "n", "n", "i", "n", "g">>

TextSwimming == <<"s", "w", "i", "m", "m", "i", "n", "g">>

TextSwimmingStyles == <<"s", "w", "i", "m", "m", "i", "n", "g", " ", "s", "t", "y", "l", "e", "s">>

TextExit == <<"e", "x", "i", "t">>

TextOptions == <<"o", "p", "t", "i", "o", "n", "s">>

COMMANDS(program) ==
  IF program = "Final" THEN <<TextBiking, TextRunning, TextSwimming, TextExit>>
  ELSE <<TextBiking, TextRunning, TextSwimming, TextSwimmingStyles, TextExit>>

(***************************************************************************)
(* The validated input readers: what one pass of the while loop does with    *)
(* the line input() returned.  res is "return" (the loop ends), "retry" (a   *)
(* diagnostic of diag lines, the cursor moved up by up lines, the prompt     *)
(* again) or "listed" (the options printed, the prompt again).               *)
(***************************************************************************)
\* max(a, b) of Python: b only when b > a
PyMax(a, b) == IF FGt(b, a) THEN b ELSE a

\* min(a, b) of Python: b only when b < a
PyMin(a, b) == IF FLt(b, a) THEN b ELSE a

\* a constrain() with min and max the wrong way round
constrain_swapped(lower_limit, number, upper_limit) ==
  PyMax(PyMin(lower_limit, number), upper_limit)

constrain(lower_limit, number, upper_limit) ==
  PyMin(PyMax(lower_limit, number), upper_limit)

\* the text the reader works on
normalized_number_input(program, line) ==
  IF program = "Final" THEN lower(strip(line)) ELSE strip(line)

\* a test that lets zero through
is_nonnegative(number) == ~FLt(number, Zero)

\* number > 0
is_positive(number) == FGt(number, Zero)

\* a reader that moves up one line too few after its two-line diagnostic
checked_number_short(program, parsed) ==
  IF parsed.ok /\ is_positive(parsed.v)
    THEN [res |-> "return", number |-> parsed.v, diag |-> 0, up |-> 0]
  ELSE IF parsed.ok
    THEN [res |-> "retry", number |-> None, diag |-> 1, up |-> 2]
  ELSE [res |-> "retry", number |-> None, diag |-> (IF program = "Final" THEN 2 ELSE 1),
        up |-> 2]

\* the try block and its except clause, for what float(user_input) gave
checked_number(program, parsed) ==
  IF parsed.ok /\ is_positive(parsed.v)
    THEN [res |-> "return", number |-> parsed.v, diag |-> 0, up |-> 0]
  ELSE IF parsed.ok
    THEN [res |-> "retry", number |-> None, diag |-> 1, up |-> 2]
  ELSE IF program = "Final"
    THEN [res |-> "retry", number |-> None, diag |-> 2, up |-> 3]
  ELSE [res |-> "retry", number |-> None, diag |-> 1, up |-> 2]

get_positive_number(program, line) ==
  checked_number(program, float(normalized_number_input(program, line)))

\* the body of the loop for the normalised user_input
checked_option(program, options, user_input, option_index) ==
  IF program = "Final" /\ user_input = TextOptions
    THEN [res |-> "listed", option_index |-> -1, listing |-> options, diag |-> 0, up |-> 0]
  ELSE IF option_index >= 0
    THEN [res |-> "return", option_index |-> option_index, listing |-> <<>>, diag |-> 0, up |-> 0]
  ELSE IF program = "Final"
    THEN [res |-> "retry", option_index |-> -1, listing |-> <<>>, diag |-> 2, up |-> 3]
  ELSE [res |-> "retry", option_index |-> -1, listing |-> <<>>, diag |-> 1, up |-> 2]

get_index_of_one_of(program, options, line) ==
  checked_option(program, options, lower(strip(line)), index(options, lower(strip(line))))

\* the body of the loop for the normalised user_input
checked_yes_or_no(default, user_input) ==
  IF user_input \in {<<"y", "e", "s">>, <<"y">>}
    THEN [res |-> "return", response |-> TRUE, diag |-> 0, up |-> 0]
  ELSE IF user_input \in {<<"n", "o">>, <<"n">>}
    THEN [res |-> "return", response |-> FALSE, diag |-> 0, up |-> 0]
  ELSE IF user_input = <<>>
    THEN [res |-> "return", response |-> default, diag |-> 0, up |-> 1]
  ELSE [res |-> "retry", response |-> default, diag |-> 1, up |-> 2]

\* get_yes_or_no(prompt, default) with a default that is not None
get_yes_or_no(default, line) == checked_yes_or_no(default, lower(strip(line)))

(***************************************************************************)
(* The calculators.  raised names the exception that ends the call.          *)
(***************************************************************************)
speed_mph(distance_mi, duration_hours) == FDiv(distance_mi, duration_hours)

\* met = constrain(4, speed_mph - 5, 16)
biking_met(distance_mi, duration_hours) ==
  constrain(FInt(4), FSub(speed_mph(distance_mi, duration_hours), FInt(5)), FInt(16))

side_length_mi(distance_mi) == FDiv(distance_mi, FInt(4))

area_square_mi(distance_mi) == FMul(side_length_mi(distance_mi), side_length_mi(distance_mi))

area_acres(distance_mi) == FMul(area_square_mi(distance_mi), FInt(ACRES_PER_SQUARE_MILE))

\* calories_burned = duration_hours * met * weight_kg
biking_calories(weight_kg, duration_hours, met) == FMul(FMul(duration_hours, met), weight_kg)

calc_biking(weight_kg, distance_mi, duration_hours) ==
  IF IsZero(duration_hours)
    THEN [raised |-> "ZeroDivisionError", met |-> None, calories_burned |-> None]
  ELSE IF IsFinite(side_length_mi(distance_mi)) /\ ~IsFinite(area_square_mi(distance_mi))
    THEN [raised |-> "OverflowError", met |-> biking_met(distance_mi, duration_hours),
          calories_burned |-> None]
  ELSE [raised |-> "none", met |-> biking_met(distance_mi, duration_hours),
        calories_burned |->
          biking_calories(weight_kg, duration_hours, biking_met(distance_mi, duration_hours))]

max_heart_bpm(age_years) == FSub(FInt(208), FMul(Dec(7, 1), age_years))

vo2_max(age_years, resting_heart_bpm) ==
  FDiv(FMul(Dec(153, 1), max_heart_bpm(age_years)), resting_heart_bpm)

\* 1.285 - 0.005 * vo2_max
raw_fitness_factor(age_years, resting_heart_bpm) ==
  FSub(Dec(1285, 3), FMul(Dec(5, 3), vo2_max(age_years, resting_heart_bpm)))

car_resp_fitness_factor(age_years, resting_heart_bpm) ==
  constrain(FInt(1), raw_fitness_factor(age_years, resting_heart_bpm), Dec(107, 2))

air_resistance_factor(on_a_treadmill) == IF ~on_a_treadmill THEN Dec(84, 2) ELSE FInt(0)

\* Main.py asks no treadmill question: its on_a_treadmill is FALSE
calc_running(weight_kg, distance_km, age_years, resting_heart_bpm, on_a_treadmill) ==
  FMul(FMul(FAdd(FMul(Dec(95, 2), weight_kg), air_resistance_factor(on_a_treadmill)),
            distance_km),
       car_resp_fitness_factor(age_years, resting_heart_bpm))

\* a lookup that is off by one
style_met_shifted(style_index) == SWIMMING_STYLE_METS[((style_index + 1) % 10) + 1]

style_met(style_index) == SWIMMING_STYLE_METS[style_index + 1]

calc_swimming(weight_kg, duration_hours, style_index) ==
  FMul(FMul(duration_hours, style_met(style_index)), weight_kg)

\* int(calories // CALORIES_PER_SQUARE)
number_of_squares(calories) == IntFloor(FDiv(calories, FInt(CALORIES_PER_SQUARE)))

\* calories % CALORIES_PER_SQUARE
remainder(calories) ==
  FSub(calories, FMul(FInt(number_of_squares(calories)), FInt(CALORIES_PER_SQUARE)))

\* the index into the three remainder characters
remainder_index(calories_left) ==
  PyRound(FDiv(calories_left, FDiv(FInt(CALORIES_PER_SQUARE), FInt(2))))

\* the bar of one exercise: the squares, the remainder character, the number
print_calories_bar(calories) ==
  IF ~IsFinite(calories)
    THEN [raised |-> "ValueError", squares |-> 0, glyph |-> 0, shown |-> 0]
  ELSE [raised |-> "none", squares |-> number_of_squares(calories),
        glyph |-> remainder_index(remainder(calories)), shown |-> PyRound(calories)]

(***************************************************************************)
(* The session: main() of both programs.  A step is what the program does    *)
(* with one line of input, up to the next input() call, or one pass of the   *)
(* summary loop.                                                             *)
(***************************************************************************)
\* at most this many exercises are started in a session
MaxExercises == 2

\* the lines the user may type at any prompt
Lines ==
  { <<"b", "i", "k", "i", "n", "g">>,
    <<" ", "R", "u", "n", "n", "i", "n", "g", " ">>,
    <<"s", "w", "i", "m", "m", "i", "n", "g">>,
    <<"s", "w", "i", "m", "m", "i", "n", "g", " ", "s", "t", "y", "l", "e", "s">>,
    <<"o", "p", "t", "i", "o", "n", "s">>,
    <<"E", "X", "I", "T">>,
    <<"b", "i", "k">>,
    <<"1", "5", "0">>,
    <<"1", "e", "-", "3", "2", "3">>,
    <<"i", "n", "f">>,
    <<"0">>,
    <<"t", "e", "n">>,
    <<"y">>,
    <<>>,
    <<"B", "u", "t", "t", "e", "r", "f", "l", "y">>,
    <<"c", "r", "a", "w", "l">> }

VARIABLES
  program,                \* which of the two programs runs
  pc,                     \* the prompt the program waits at, or "summary", "done", "raised"
  command,                \* main's / run_command's command
  weight_kg, distance_mi, distance_km, duration_hours,
  age_years, resting_heart_bpm,
  exercises,              \* the list of [command, calories_burned]
  should_exit,            \* the main loop has ended by "exit"
  bar_index,              \* index of the summary loop
  total_calories_burned,
  bars,                   \* the bars printed: squares, remainder glyph, number shown
  total_line,             \* << n >> once "Total: n calories" is printed
  notice,                 \* "No exercises recorded." is printed
  raised,                 \* the exception that ended the program, or "none"
  call,                   \* the function under study, "main" for the session
  args,                   \* its arguments
  result,                 \* << what it returned >>, << >> before the call
  typed,                  \* the lines typed at the prompt of a reader
  outcomes                \* what the reader did with each of them

locals == <<weight_kg, distance_mi, distance_km, duration_hours, age_years, resting_heart_bpm>>

summary == <<bar_index, total_calories_burned, bars, total_line, notice>>

\* what a session leaves alone
study == <<call, args, result, typed, outcomes>>

vars == <<program, pc, command, locals, exercises, should_exit, summary, raised, study>>

Prompts == {"Command", "Weight", "Distance", "Duration", "Age", "HeartRate", "Treadmill", "Style"}

Init ==
  /\ program \in {"Final", "Main"}
  /\ pc = "Command"
  /\ command = <<>>
  /\ weight_kg = None /\ distance_mi = None /\ distance_km = None
  /\ duration_hours = None /\ age_years = None /\ resting_heart_bpm = None
  /\ exercises = <<>>
  /\ should_exit = FALSE
  /\ bar_index = 0
  /\ total_calories_burned = None
  /\ bars = <<>>
  /\ total_line = <<>>
  /\ notice = FALSE
  /\ raised = "none"
  /\ call = "main" /\ args = <<>> /\ result = <<>> /\ typed = <<>> /\ outcomes = <<>>

SetLocals(w, dmi, dkm, dur, age, rhr) ==
  /\ weight_kg' = w /\ distance_mi' = dmi /\ distance_km' = dkm
  /\ duration_hours' = dur /\ age_years' = age /\ resting_heart_bpm' = rhr

\* a rejected line, or a listing: the same prompt again
Reprompt == UNCHANGED vars

\* an uncaught exception ends the program
Raise(exception) ==
  /\ pc' = "raised"
  /\ raised' = exception
  /\ UNCHANGED <<study, program, command, exercises, should_exit, summary>>

\* the calculation is done: main appends the record and loops.  Final.py's
\* measurements are locals of run_command and of calc_running, gone on return;
\* Main.py's are main's own and stay bound (calc_running's are gone).
Record(calories_burned, dur) ==
  /\ exercises' = Append(exercises, [command |-> command, calories_burned |-> calories_burned])
  /\ pc' = "Command"
  /\ IF program = "Final" THEN SetLocals(None, None, None, None, None, None)
     ELSE SetLocals(weight_kg, distance_mi, distance_km, dur, None, None)
  /\ UNCHANGED <<study, program, command, should_exit, summary, raised>>

\* the next prompt of the same command
Ask(prompt) ==
  /\ pc' = prompt
  /\ UNCHANGED <<study, program, command, exercises, should_exit, summary, raised>>

\* "exit": the loop ends (Final.py's should_exit, Main.py's break) and the
\* summary starts
Exit(chosen) ==
  /\ should_exit' = TRUE
  /\ command' = IF program = "Final" THEN chosen ELSE command
  /\ IF Len(exercises) > 0
       THEN /\ pc' = "summary"
            /\ total_calories_burned' = FInt(0)
            /\ notice' = FALSE
       ELSE /\ pc' = "done"
            /\ notice' = TRUE
            /\ UNCHANGED total_calories_burned
  /\ UNCHANGED <<study, program, locals, exercises, bar_index, bars, total_line, raised>>

run_command(chosen) ==
  IF chosen = TextExit THEN Exit(chosen)
  ELSE IF chosen = TextSwimmingStyles
    THEN /\ command' = chosen
         /\ UNCHANGED <<study, program, pc, locals, exercises, should_exit, summary, raised>>
  ELSE /\ Len(exercises) < MaxExercises
       /\ command' = chosen
       /\ pc' = "Weight"
       /\ UNCHANGED <<study, program, locals, exercises, should_exit, summary, raised>>

GotCommand(r) ==
  IF r.res # "return" THEN Reprompt ELSE run_command(COMMANDS(program)[r.option_index + 1])

ReadCommand ==
  /\ pc = "Command"
  /\ \E line \in Lines : GotCommand(get_index_of_one_of(program, COMMANDS(program), line))

\* a run_command that takes a swimmer from the weight straight to the style
GotWeight_skips(r) ==
  IF r.res # "return" THEN Reprompt
  ELSE /\ weight_kg' = FMul(r.number, KILOGRAMS_PER_POUND)
       /\ age_years' = None /\ resting_heart_bpm' = None
       /\ IF program = "Final"
            THEN distance_mi' = None /\ distance_km' = None /\ duration_hours' = None
            ELSE UNCHANGED <<distance_mi, distance_km, duration_hours>>
       /\ Ask(IF command \in {TextBiking, TextRunning} THEN "Distance" ELSE "Style")

GotWeight(r) ==
  IF r.res # "return" THEN Reprompt
  ELSE /\ weight_kg' = FMul(r.number, KILOGRAMS_PER_POUND)
       /\ age_years' = None /\ resting_heart_bpm' = None
       /\ IF program = "Final"
            THEN distance_mi' = None /\ distance_km' = None /\ duration_hours' = None
            ELSE UNCHANGED <<distance_mi, distance_km, duration_hours>>
       /\ Ask(IF command \in {TextBiking, TextRunning} THEN "Distance" ELSE "Duration")

ReadWeight ==
  /\ pc = "Weight"
  /\ \E line \in Lines : GotWeight(get_positive_number(program, line))

GotDistance(r) ==
  IF r.res # "return" THEN Reprompt
  ELSE /\ distance_mi' = r.number
       /\ distance_km' = FMul(r.number, KILOMETERS_PER_MILE)
       /\ UNCHANGED <<weight_kg, duration_hours, age_years, resting_heart_bpm>>
       /\ Ask(IF command = TextBiking THEN "Duration" ELSE "Age")

ReadDistance ==
  /\ pc = "Distance"
  /\ \E line \in Lines : GotDistance(get_positive_number(program, line))

\* calc_biking ran with the duration dur and gave b
Biked(dur, b) ==
  IF b.raised # "none"
    THEN /\ Raise(b.raised)
         /\ duration_hours' = dur
         /\ UNCHANGED <<weight_kg, distance_mi, distance_km, age_years, resting_heart_bpm>>
  ELSE Record(b.calories_burned, dur)

GotDuration(r, dur) ==
  IF r.res # "return" THEN Reprompt
  ELSE IF command # TextBiking
    THEN /\ duration_hours' = dur
         /\ UNCHANGED <<weight_kg, distance_mi, distance_km, age_years, resting_heart_bpm>>
         /\ Ask("Style")
  ELSE Biked(dur, calc_biking(weight_kg, distance_mi, dur))

ReadDuration ==
  /\ pc = "Duration"
  /\ \E line \in Lines :
       GotDuration(get_positive_number(program, line),
                   FDiv(get_positive_number(program, line).number, FInt(MINUTES_PER_HOUR)))

GotAge(r) ==
  IF r.res # "return" THEN Reprompt
  ELSE /\ age_years' = r.number
       /\ UNCHANGED <<weight_kg, distance_mi, distance_km, duration_hours, resting_heart_bpm>>
       /\ Ask("HeartRate")

ReadAge ==
  /\ pc = "Age"
  /\ \E line \in Lines : GotAge(get_positive_number(program, line))

GotHeartRate(r) ==
  IF r.res # "return" THEN Reprompt
  ELSE IF program = "Final"
    THEN /\ resting_heart_bpm' = r.number
         /\ UNCHANGED <<weight_kg, distance_mi, distance_km, duration_hours, age_years>>
         /\ Ask("Treadmill")
  ELSE Record(calc_running(weight_kg, distance_km, age_years, r.number, FALSE), duration_hours)

ReadHeartRate ==
  /\ pc = "HeartRate"
  /\ \E line \in Lines : GotHeartRate(get_positive_number(program, line))

GotTreadmill(r) ==
  IF r.res # "return" THEN Reprompt
  ELSE Record(calc_running(weight_kg, distance_km, age_years, resting_heart_bpm, r.response),
              duration_hours)

ReadTreadmill ==
  /\ pc = "Treadmill"
  /\ \E line \in Lines : GotTreadmill(get_yes_or_no(FALSE, line))

GotStyle(r) ==
  IF r.res # "return" THEN Reprompt
  ELSE Record(calc_swimming(weight_kg, duration_hours, r.option_index), duration_hours)

ReadStyle ==
  /\ pc = "Style"
  /\ \E line \in Lines : GotStyle(get_index_of_one_of(program, SWIMMING_STYLES, line))

\* a summary that adds up the numbers shown beside the bars
accumulate_rounded(total, calories_burned) == FAdd(total, FInt(PyRound(calories_burned)))

\* total_calories_burned += exercises[index][1]
accumulate(total, calories_burned) == FAdd(total, calories_burned)

\* print_calories_bar gave b for the exercise that burned calories
Barred(calories, b) ==
  IF b.raised # "none"
    THEN /\ Raise(b.raised)
         /\ UNCHANGED locals
  ELSE /\ bars' = Append(bars, [squares |-> b.squares, glyph |-> b.glyph, shown |-> b.shown])
       /\ total_calories_burned' = accumulate(total_calories_burned, calories)
       /\ bar_index' = bar_index + 1
       /\ UNCHANGED <<study, program, pc, command, locals, exercises, should_exit,
                      total_line, notice, raised>>

\* one pass of the summary loop
SummaryBar ==
  /\ pc = "summary"
  /\ bar_index < Len(exercises)
  /\ Barred(exercises[bar_index + 1].calories_burned,
            print_calories_bar(exercises[bar_index + 1].calories_burned))

\* print("\nTotal:", round(total_calories_burned), "calories")
SummaryTotal ==
  /\ pc = "summary"
  /\ bar_index = Len(exercises)
  /\ total_line' = <<PyRound(total_calories_burned)>>
  /\ pc' = "done"
  /\ UNCHANGED <<study, program, command, locals, exercises, should_exit, bar_index,
                 total_calories_burned, bars, notice, raised>>

Next ==
  \/ ReadCommand
  \/ ReadWeight
  \/ ReadDistance
  \/ ReadDuration
  \/ ReadAge
  \/ ReadHeartRate
  \/ ReadTreadmill
  \/ ReadStyle
  \/ SummaryBar
  \/ SummaryTotal

Spec == Init /\ [][Next]_vars

(***************************************************************************)
(* The session's claims.                                                     *)
(***************************************************************************)
\* C1: the main loop ends only after "exit" is entered at the Command prompt:
\* whenever the program no longer waits at a prompt, the loop was left by
\* "exit".
C1_LoopEndsOnlyOnExit == pc \notin Prompts => should_exit

\* C4: every record of the exercise list names biking, running or swimming
\* and holds a calories value greater than zero.
C4_RecordsArePositive ==
  \A i \in 1..Len(exercises) :
     /\ exercises[i].command \in {TextBiking, TextRunning, TextSwimming}
     /\ FGt(exercises[i].calories_burned, Zero)

\* the sum of the unrounded calories of the first k records, in list order
RECURSIVE CaloriesSum(_, _)
CaloriesSum(records, k) ==
  IF k = 0 THEN FInt(0)
  ELSE FAdd(CaloriesSum(records, k - 1), records[k].calories_burned)

\* the sum of the numbers shown beside the first k bars
RECURSIVE ShownSum(_, _)
ShownSum(shown_bars, k) ==
  IF k = 0 THEN 0 ELSE ShownSum(shown_bars, k - 1) + shown_bars[k].shown

\* C9: the total printed at exit is the sum of the unrounded calories of all
\* the recorded exercises, rounded once.
C9_TotalIsSumRoundedOnce ==
  total_line # <<>> => total_line[1] = PyRound(CaloriesSum(exercises, Len(exercises)))

\* C9's case: a total is printed that differs from the sum of the rounded
\* numbers shown beside the bars
C9_TotalDiffersFromShownSum ==
  /\ total_line # <<>>
  /\ Len(bars) = Len(exercises)
  /\ total_line[1] # ShownSum(bars, Len(bars))

\* C10: a session ended by "exit" with no record prints the notice, no bar
\* and no total; one with a record prints a bar for every record and the
\* total, and not the notice.
C10_SummaryMatchesRecords ==
  (should_exit /\ pc \in {"done", "raised"}) =>
     IF Len(exercises) = 0
       THEN notice /\ total_line = <<>> /\ bars = <<>>
       ELSE ~notice /\ total_line # <<>> /\ Len(bars) = Len(exercises)

(***************************************************************************)
(* One reader on its own: the lines typed at its prompt until it returns.    *)
(***************************************************************************)
\* at most this many lines are typed at the prompt
MaxLines == 2

\* the lines typed at a reader's prompt
ReaderLines ==
  Lines \cup
  { <<"-", "5">>,
    <<" ", "2", ".", "5", " ">>,
    <<"1", "E", "2">>,
    <<"+", ".", "5", "e", "1">>,
    <<"1", "e">>,
    <<"n", "a", "n">>,
    <<"Y", "e", "s">>,
    <<" ", "N", "O">> }

\* the session's variables while a single function is studied
Idle ==
  /\ pc = "study" /\ command = <<>>
  /\ weight_kg = None /\ distance_mi = None /\ distance_km = None
  /\ duration_hours = None /\ age_years = None /\ resting_heart_bpm = None
  /\ exercises = <<>> /\ should_exit = FALSE /\ bar_index = 0
  /\ total_calories_burned = None /\ bars = <<>> /\ total_line = <<>>
  /\ notice = FALSE /\ raised = "none"

session == <<pc, command, locals, exercises, should_exit, summary, raised>>

ReaderInit ==
  /\ program \in {"Final", "Main"}
  /\ call \in {"get_positive_number", "get_index_of_one_of", "get_yes_or_no"}
  /\ call = "get_yes_or_no" => program = "Final"
  /\ args \in (IF call = "get_index_of_one_of" THEN {COMMANDS(program), SWIMMING_STYLES}
               ELSE {<<>>})
  /\ result = <<>> /\ typed = <<>> /\ outcomes = <<>>
  /\ Idle

\* one pass of the reader's loop: input() gave line and the pass ended as r
Typed(line, r, returned) ==
  /\ typed' = Append(typed, line)
  /\ outcomes' = Append(outcomes, r)
  /\ result' = IF r.res = "return" THEN <<returned>> ELSE <<>>
  /\ UNCHANGED <<program, call, args, session>>

TypeNumber ==
  /\ call = "get_positive_number" /\ result = <<>> /\ Len(typed) < MaxLines
  /\ \E line \in ReaderLines :
       Typed(line, get_positive_number(program, line), get_positive_number(program, line).number)

TypeOption ==
  /\ call = "get_index_of_one_of" /\ result = <<>> /\ Len(typed) < MaxLines
  /\ \E line \in ReaderLines :
       Typed(line, get_index_of_one_of(program, args, line),
             get_index_of_one_of(program, args, line).option_index)

TypeYesOrNo ==
  /\ call = "get_yes_or_no" /\ result = <<>> /\ Len(typed) < MaxLines
  /\ \E line \in ReaderLines :
       Typed(line, get_yes_or_no(FALSE, line), get_yes_or_no(FALSE, line).response)

ReaderNext ==
  \/ TypeNumber
  \/ TypeOption
  \/ TypeYesOrNo

ReaderSpec == ReaderInit /\ [][ReaderNext]_vars

\* the trimmed text of line parses to a number greater than zero
ParsesPositive(line) == float(strip(line)).ok /\ FGt(float(strip(line)).v, Zero)

\* C2: get_positive_number returns the value of the first line whose trimmed
\* text parses to a number > 0, and rejects every other line with a
\* diagnostic and the prompt again.
C2_FirstPositiveNumberReturned ==
  call = "get_positive_number" =>
    \A i \in 1..Len(typed) :
       IF ParsesPositive(typed[i])
         THEN /\ i = Len(typed)
              /\ outcomes[i].res = "return"
              /\ result # <<>>
              /\ FEq(result[1], float(strip(typed[i])).v)
         ELSE /\ outcomes[i].res = "retry"
              /\ outcomes[i].diag >= 1
              /\ i = Len(typed) => result = <<>>

\* C2's case: a rejected line, then a line that is returned
C2_ReturnedAfterRejection ==
  /\ call = "get_positive_number"
  /\ Len(typed) = 2
  /\ outcomes[1].res = "retry"
  /\ result # <<>>

\* C3: get_index_of_one_of returns the index of the option that the trimmed,
\* lowercased line equals, for the first line that equals an option; another
\* line is reported invalid; Final.py's "options" lists the options with no
\* diagnostic and does not end the read.
C3_ExactOptionReturned ==
  call = "get_index_of_one_of" =>
    \A i \in 1..Len(typed) :
       IF program = "Final" /\ lower(strip(typed[i])) = TextOptions
         THEN /\ outcomes[i].res = "listed"
              /\ outcomes[i].listing = args
              /\ outcomes[i].diag = 0
              /\ i = Len(typed) => result = <<>>
       ELSE IF \E j \in 1..Len(args) : args[j] = lower(strip(typed[i]))
         THEN /\ i = Len(typed)
              /\ outcomes[i].res = "return"
              /\ result # <<>>
              /\ result[1] \in 0..(Len(args) - 1)
              /\ args[result[1] + 1] = lower(strip(typed[i]))
              /\ \A j \in 1..result[1] : args[j] # lower(strip(typed[i]))
       ELSE /\ outcomes[i].res = "retry"
            /\ outcomes[i].diag >= 1
            /\ i = Len(typed) => result = <<>>

\* C3's case: Final.py lists the options, then returns the index of an option
\* typed with capitals and blanks around it
C3_ListedThenReturned ==
  /\ call = "get_index_of_one_of"
  /\ program = "Final"
  /\ Len(typed) = 2
  /\ outcomes[1].res = "listed"
  /\ result # <<>>
  /\ typed[2] # args[result[1] + 1]

(***************************************************************************)
(* One calculator on its own: called once with arguments the readers can     *)
(* return.                                                                   *)
(***************************************************************************)
\* the arguments of a call: weights of 70 kg and of 150 pounds, distances of 5,
\* 9, 20, 21, 30 and 1e200 miles, durations of 1 and 0.5 hours, ages of 30, 70
\* and inf years, heart rates of 40, 60, 100 and inf, every style, and calories
\* below, at and above the marks of the bar
ArgumentsOf(calculator) ==
  IF calculator = "calc_biking"
    THEN {FInt(70), FMul(FInt(150), KILOGRAMS_PER_POUND)}
         \X {FInt(5), FInt(9), FInt(20), FInt(21), FInt(30), Dec(1, -200)}
         \X {FInt(1), Dec(5, 1)}
  ELSE IF calculator = "calc_running"
    THEN {FInt(70)} \X {FInt(10)} \X {FInt(30), FInt(70), Inf(1)}
         \X {FInt(40), FInt(60), FInt(100), Inf(1)} \X {TRUE, FALSE}
  ELSE IF calculator = "calc_swimming"
    THEN {FInt(70), FMul(FInt(150), KILOGRAMS_PER_POUND)} \X {FInt(1), Dec(5, 1)}
         \X (0..(Len(SWIMMING_STYLES) - 1))
  ELSE {<<c>> : c \in
         {Dec(4, 1), Dec(249, 1), FInt(25), FInt(75), Dec(9999, 2), Dec(1495, 1), FInt(250),
          Dec(2505, 1), Dec(3755, 1), FInt(1050), Dec(272155, 2), Inf(1)}}

CalcInit ==
  /\ program = "Final"
  /\ call \in {"calc_biking", "calc_running", "calc_swimming", "print_calories_bar"}
  /\ args \in ArgumentsOf(call)
  /\ result = <<>> /\ typed = <<>> /\ outcomes = <<>>
  /\ Idle

Returned(value) ==
  /\ result' = <<value>>
  /\ UNCHANGED <<program, call, args, typed, outcomes, session>>

CallBiking ==
  /\ call = "calc_biking" /\ result = <<>>
  /\ Returned(calc_biking(args[1], args[2], args[3]))

CallRunning ==
  /\ call = "calc_running" /\ result = <<>>
  /\ Returned([car_resp_fitness_factor |-> car_resp_fitness_factor(args[3], args[4]),
               calories_burned |-> calc_running(args[1], args[2], args[3], args[4], args[5])])

CallSwimming ==
  /\ call = "calc_swimming" /\ result = <<>>
  /\ Returned(calc_swimming(args[1], args[2], args[3]))

CallBar ==
  /\ call = "print_calories_bar" /\ result = <<>>
  /\ Returned(print_calories_bar(args[1]))

CalcNext ==
  \/ CallBiking
  \/ CallRunning
  \/ CallSwimming
  \/ CallBar

CalcSpec == CalcInit /\ [][CalcNext]_vars

One == FInt(1)

MaxFitness == Dec(107, 2)

\* C5, as the spec words it: a raw fitness value above 1 is clamped down to
\* 1.07.
C5_AboveOneBecomesMax ==
  (call = "calc_running" /\ result # <<>> /\ FGt(raw_fitness_factor(args[3], args[4]), One))
    => FEq(result[1].car_resp_fitness_factor, MaxFitness)

\* C5, amended: a raw fitness value above 1.07 becomes 1.07, one from 1 to
\* 1.07 is kept as it is, one below 1 or not a number becomes 1, and the
\* factor is never below 1 nor above 1.07.
C5_FitnessClampedIntoRange ==
  (call = "calc_running" /\ result # <<>>) =>
     /\ FGt(raw_fitness_factor(args[3], args[4]), MaxFitness)
          => FEq(result[1].car_resp_fitness_factor, MaxFitness)
     /\ (FLe(One, raw_fitness_factor(args[3], args[4]))
           /\ FLe(raw_fitness_factor(args[3], args[4]), MaxFitness))
          => FEq(result[1].car_resp_fitness_factor, raw_fitness_factor(args[3], args[4]))
     /\ (FLt(raw_fitness_factor(args[3], args[4]), One)
           \/ raw_fitness_factor(args[3], args[4]).k = "nan")
          => FEq(result[1].car_resp_fitness_factor, One)
     /\ FLe(One, result[1].car_resp_fitness_factor)
     /\ FLe(result[1].car_resp_fitness_factor, MaxFitness)

\* C5's case: a raw fitness value strictly between 1 and 1.07 is returned as
\* it is
C5_RawValueKept ==
  /\ call = "calc_running" /\ result # <<>>
  /\ FGt(raw_fitness_factor(args[3], args[4]), One)
  /\ FLt(raw_fitness_factor(args[3], args[4]), MaxFitness)
  /\ FEq(result[1].car_resp_fitness_factor, raw_fitness_factor(args[3], args[4]))

\* speed - 5 for the arguments of calc_biking
SpeedLessFive == FSub(FDiv(args[2], args[3]), FInt(5))

\* C6: calc_biking returns duration * MET * weight with MET = speed - 5 kept
\* within 4..16, whatever the traced square is.
C6_BikingReturnsProduct ==
  (call = "calc_biking" /\ result # <<>>) =>
     /\ result[1].raised = "none"
     /\ FLt(SpeedLessFive, FInt(4)) => FEq(result[1].met, FInt(4))
     /\ FGt(SpeedLessFive, FInt(16)) => FEq(result[1].met, FInt(16))
     /\ (FLe(FInt(4), SpeedLessFive) /\ FLe(SpeedLessFive, FInt(16)))
          => FEq(result[1].met, SpeedLessFive)
     /\ FEq(result[1].calories_burned, FMul(FMul(args[3], result[1].met), args[1]))

\* the MET constants of the ten styles, in the order the spec lists them
ListedMets ==
  << Dec(95, 1), Dec(48, 1), Dec(103, 1), Dec(53, 1), Dec(138, 1),
     FInt(10), Dec(83, 1), FInt(7), Dec(98, 1), Dec(35, 1) >>

TextButterfly == <<"b", "u", "t", "t", "e", "r", "f", "l", "y">>

\* C7: both tables have ten entries, the MET of a style is the one listed at
\* its index (13.8 for butterfly), and calc_swimming returns
\* duration * styleMET * weight.
C7_SwimmingUsesListedMet ==
  /\ Len(SWIMMING_STYLES) = 10
  /\ Len(SWIMMING_STYLE_METS) = 10
  /\ (call = "calc_swimming" /\ result # <<>>) =>
        /\ FEq(result[1], FMul(FMul(args[2], ListedMets[args[3] + 1]), args[1]))
        /\ SWIMMING_STYLES[args[3] + 1] = TextButterfly
             => FEq(result[1], FMul(FMul(args[2], Dec(138, 1)), args[1]))

\* C7's case: the calories of a butterfly swim
C7_ButterflySwum ==
  /\ call = "calc_swimming" /\ result # <<>>
  /\ SWIMMING_STYLES[args[3] + 1] = TextButterfly
  /\ FEq(args[1], FInt(70)) /\ FEq(args[2], Dec(5, 1))
  /\ FEq(result[1], FInt(483))

\* |calories_left - 50 * g|
GlyphDistance(calories_left, g) ==
  IF FLt(calories_left, FInt(50 * g)) THEN FSub(FInt(50 * g), calories_left)
  ELSE FSub(calories_left, FInt(50 * g))

\* C8: print_calories_bar prints floor(c / 100) squares, then the glyph of
\* index round((c mod 100) / 50), which is 0, 1 or 2 and the nearest of the
\* three states, then c rounded.
C8_BarShowsCalories ==
  (call = "print_calories_bar" /\ result # <<>>) =>
     /\ result[1].raised = "none"
     /\ result[1].squares >= 0
     /\ FLe(FInt(100 * result[1].squares), args[1])
     /\ FLt(args[1], FInt(100 * result[1].squares + 100))
     /\ result[1].glyph \in {0, 1, 2}
     /\ \A g \in {0, 1, 2} :
          FLe(GlyphDistance(FSub(args[1], FInt(100 * result[1].squares)), result[1].glyph),
              GlyphDistance(FSub(args[1], FInt(100 * result[1].squares)), g))
     /\ FLe(FSub(args[1], Half), FInt(result[1].shown))
     /\ FLe(FInt(result[1].shown), FAdd(args[1], Half))

(***************************************************************************)
(* The terminal, with the escape sequences enabled: the row of the cursor,   *)
(* counted from the row of the reader's first prompt, and the rows that hold *)
(* the text of a diagnostic.                                                 *)
(***************************************************************************)
\* what one pass of a reader's loop sends to the terminal after its prompt:
\* the user's Enter ends the line of the prompt, CLEAR_REST_OF_SCREEN is
\* printed, then the listing ("", "Options:", the options, "") or the
\* diagnostic lines and the CURSOR_UP moves; get_yes_or_no's default moves up
\* and prints the prompt with the default response
terminal_output(r) ==
  <<"enter", "clear">> \o
  (IF r.res = "listed" THEN [i \in 1..(Len(r.listing) + 3) |-> "line"]
   ELSE IF r.res = "retry"
     THEN [i \in 1..r.diag |-> "diagnostic"] \o [i \in 1..r.up |-> "up"]
   ELSE [i \in 1..r.up |-> "up"] \o [i \in 1..r.up |-> "line"])

\* the terminal t after op: a line ends at the start of the next row,
\* "\x1b[A" moves one row up, "\x1b[J" erases from the cursor to the end of
\* the screen
terminal_step(t, op) ==
  IF op \in {"enter", "line"} THEN [t EXCEPT !.row = t.row + 1]
  ELSE IF op = "diagnostic" THEN [row |-> t.row + 1, text |-> t.text \cup {t.row}]
  ELSE IF op = "up" THEN [t EXCEPT !.row = t.row - 1]
  ELSE [t EXCEPT !.text = {w \in t.text : w < t.row}]

\* the terminal after the first k of ops, from the reader's first prompt
RECURSIVE Terminal(_, _)
Terminal(ops, k) ==
  IF k = 0 THEN [row |-> 0, text |-> {}]
  ELSE terminal_step(Terminal(ops, k - 1), ops[k])

\* what the first k passes of the loop send to the terminal
RECURSIVE passes_output(_, _)
passes_output(outs, k) ==
  IF k = 0 THEN <<>> ELSE passes_output(outs, k - 1) \o terminal_output(outs[k])

\* the terminal when the prompt is issued after i passes
AfterPass(i) == Terminal(passes_output(outcomes, i), Len(passes_output(outcomes, i)))

\* the terminal in pass i after the first two things the pass sends: the
\* Enter of the user and what the reader prints first
Cleared(i) == Terminal(passes_output(outcomes, i), Len(passes_output(outcomes, i - 1)) + 2)

\* C11: on every rejection a reader moves the cursor up by the number of
\* diagnostic lines it printed plus one for the entered line, so the prompt
\* is issued again on the row it was on, with the diagnostic on the rows
\* below it; and in every pass the diagnostic of the pass before is erased
\* before anything else is printed.
C11_PromptStaysOnItsRow ==
  \A i \in 1..Len(outcomes) :
     /\ Cleared(i).text = {}
     /\ outcomes[i].res = "retry" =>
          /\ outcomes[i].up = outcomes[i].diag + 1
          /\ AfterPass(i).row = AfterPass(i - 1).row
          /\ AfterPass(i).text =
               (AfterPass(i).row + 1)..(AfterPass(i).row + outcomes[i].diag)

\* C11's case: two lines rejected one after the other, the first with a
\* diagnostic of two lines, and the prompt is on its first row
C11_TwiceRejected ==
  /\ Len(outcomes) = 2
  /\ outcomes[1].res = "retry" /\ outcomes[2].res = "retry"
  /\ outcomes[1].diag = 2
  /\ AfterPass(1).text = {1, 2}
  /\ AfterPass(2).row = 0

(***************************************************************************)
(* The order of the prompts of a command and what the calculators receive.  *)
(***************************************************************************)
\* x holds a float, not None
IsSet(x) == x.k # "none"

\* the prompt that follows prompt at for the command cmd; "Command" is where
\* the calculator has returned
NextPrompts(at, cmd) ==
  IF at = "Weight" THEN (IF cmd \in {TextBiking, TextRunning} THEN {"Distance"} ELSE {"Duration"})
  ELSE IF at = "Distance" THEN (IF cmd = TextBiking THEN {"Duration"} ELSE {"Age"})
  ELSE IF at = "Duration" THEN (IF cmd = TextBiking THEN {"Command", "raised"} ELSE {"Style"})
  ELSE IF at = "Age" THEN {"HeartRate"}
  ELSE IF at = "HeartRate" THEN (IF program = "Final" THEN {"Treadmill"} ELSE {"Command"})
  ELSE {"Command"}

\* the commands that reach a prompt
AskedOf(at) ==
  IF at = "Weight" THEN {TextBiking, TextRunning, TextSwimming}
  ELSE IF at = "Distance" THEN {TextBiking, TextRunning}
  ELSE IF at = "Duration" THEN {TextBiking, TextSwimming}
  ELSE IF at = "Style" THEN {TextSwimming}
  ELSE {TextRunning}

\* a step that answers a prompt of a command goes to the prompt that is next
\* for the command, which stays the same
InOrder ==
  (pc \in Prompts \ {"Command"}) =>
     /\ command \in AskedOf(pc)
     /\ command' = command
     /\ pc' \in NextPrompts(pc, command)

\* the answer to a prompt binds its measurement to a validated number, and
\* the measurements bound before stay as they are until the calculator has
\* returned; Final.py's run_command has no distance for a swimmer and no
\* duration for a runner
Bound ==
  /\ pc = "Weight" => IsSet(weight_kg') /\ FGt(weight_kg', Zero)
  /\ pc = "Distance" => FGt(distance_mi', Zero) /\ IsSet(distance_km')
  /\ (pc = "Duration" /\ pc' = "Style") => IsSet(duration_hours')
  /\ pc = "Age" => FGt(age_years', Zero)
  /\ (pc = "HeartRate" /\ pc' = "Treadmill") => FGt(resting_heart_bpm', Zero)
  /\ (pc \in Prompts \ {"Command", "Weight"} /\ pc' \in Prompts \ {"Command"}) =>
        /\ weight_kg' = weight_kg
        /\ pc # "Distance" => (distance_mi' = distance_mi /\ distance_km' = distance_km)
        /\ pc # "Duration" => duration_hours' = duration_hours
        /\ pc # "Age" => age_years' = age_years
  /\ (program = "Final" /\ pc' \in {"Age", "HeartRate", "Treadmill"}) => ~IsSet(duration_hours')
  /\ (program = "Final" /\ pc' = "Style") => ~IsSet(distance_mi')

\* the calories of a biking record: calc_biking of the weight and distance
\* bound before and of a duration validated in this step
FromBiking(calories_burned) ==
  /\ IsSet(weight_kg) /\ IsSet(distance_mi)
  /\ \E line \in Lines :
       /\ get_positive_number(program, line).res = "return"
       /\ calories_burned =
            calc_biking(weight_kg, distance_mi,
                        FDiv(get_positive_number(program, line).number,
                             FInt(MINUTES_PER_HOUR))).calories_burned

\* the calories of a running record: calc_running of the weight, distance
\* and age bound before and of its last sub-prompt's answer
FromRunning(calories_burned) ==
  /\ IsSet(weight_kg) /\ IsSet(distance_km) /\ IsSet(age_years)
  /\ IF program = "Final"
       THEN /\ IsSet(resting_heart_bpm)
            /\ \E on_a_treadmill \in BOOLEAN :
                 calories_burned = calc_running(weight_kg, distance_km, age_years,
                                                resting_heart_bpm, on_a_treadmill)
       ELSE \E line \in Lines :
              /\ get_positive_number(program, line).res = "return"
              /\ calories_burned =
                   calc_running(weight_kg, distance_km, age_years,
                                get_positive_number(program, line).number, FALSE)

\* the calories of a swimming record: calc_swimming of the weight and
\* duration bound before and of a style
FromSwimming(calories_burned) ==
  /\ IsSet(weight_kg) /\ IsSet(duration_hours)
  /\ \E style_index \in 0..(Len(SWIMMING_STYLES) - 1) :
       calories_burned = calc_swimming(weight_kg, duration_hours, style_index)

\* a step that appends a record appends what the calculator of the command
\* makes of the measurements of this command
Received ==
  exercises' # exercises =>
     /\ Len(exercises') = Len(exercises) + 1
     /\ exercises'[Len(exercises')].command = command
     /\ pc = (IF command = TextBiking THEN "Duration"
              ELSE IF command = TextSwimming THEN "Style"
              ELSE IF program = "Final" THEN "Treadmill" ELSE "HeartRate")
     /\ IF command = TextBiking THEN FromBiking(exercises'[Len(exercises')].calories_burned)
        ELSE IF command = TextRunning
          THEN FromRunning(exercises'[Len(exercises')].calories_burned)
        ELSE FromSwimming(exercises'[Len(exercises')].calories_burned)

\* C12: in every step of a session the prompts of a command come in the
\* order weight, distance (biking and running only), duration (biking and
\* swimming only), then the sub-prompts of the exercise; every answer binds
\* its measurement, which stays bound, and the record of the command is what
\* its calculator makes of the measurements bound during the command, none
\* of them unset.
C12_MeasurementsBeforeCalculator == [][InOrder /\ Bound /\ Received]_vars

\* C12's case: Main.py has recorded a swim after a bike ride, the distance
\* of the ride still bound
C12_SwumAfterBiking ==
  /\ program = "Main"
  /\ pc = "Command"
  /\ Len(exercises) = 2
  /\ exercises[1].command = TextBiking
  /\ exercises[2].command = TextSwimming
  /\ IsSet(distance_mi) /\ IsSet(duration_hours) /\ IsSet(weight_kg)
====
